---------------------------- MODULE Spec2Model ----------------------------
(***************************************************************************)
(* Model of src/Trade.py: the recommendation arithmetic                    *)
(* (calculate_feasibility_score, calculate_investment_amount,              *)
(* recommend_holding_period, calculate_stop_loss), the record-building     *)
(* loop and ranking of main, and generate_historical_data.                 *)
(*                                                                         *)
(* Number representation (Python floats become exact fixed point):         *)
(*   pe, growth, score      tenths            (29.4 -> 294)                *)
(*   current_price, funds, amounts, stop_loss  cents  (178.72 -> 17872)    *)
(*   vol_factor, change     tenths of a percent (1.8 -> 18)                *)
(*   running price of the walk  [num, exp]: num / 1000^exp cents           *)
(* round(x, 2) rounds to the nearest cent; on an exact decimal tie the     *)
(* binary value of the float decides the direction, so a tie is modelled   *)
(* as either neighbour.                                                    *)
(***************************************************************************)
EXTENDS Integers, Sequences, FiniteSets, TLC

VARIABLES
    pc,                 \* position in main / generate_historical_data
    stock_data,         \* main: the batch of stock rows (sequence)
    available_funds,    \* main: funds in cents
    max_percentage,     \* calculate_investment_amount: max_percentage
    idx,                \* main: 1-based position of the row being processed
    score,              \* main: local score
    recommended_amount, \* dict entry under construction (line 124)
    hold_period,        \* dict entry under construction (line 125)
    stop_loss,          \* dict entry under construction (line 126)
    results,            \* main: list of result dicts
    results_df,         \* main: sorted frame, rows [index, row]
    exc,                \* exception that ended the run ("" when none)
    start_price,        \* generate_historical_data argument (cents)
    volatility,         \* generate_historical_data argument
    days,               \* generate_historical_data argument
    vol_factor,         \* generate_historical_data local
    todo,               \* remaining values of range(days, -1, -1)
    price,              \* running price [num, exp]
    walk,               \* running price after each loop pass (history of price)
    data                \* generate_historical_data: list of points

vars == <<pc, stock_data, available_funds, max_percentage, idx, score,
          recommended_amount, hold_period, stop_loss, results, results_df,
          exc, start_price, volatility, days, vol_factor, todo, price,
          walk, data>>

\* ------------------------------------------------------------- bounds
MaxStocks == 2      \* longest drawn multi-row batch
MaxDays == 1        \* largest days argument of generate_historical_data

\* ------------------------------------------------------------ helpers
Labels == {"Very Low", "Low", "Medium", "High", "Very High"}

Min(a, b) == IF a <= b THEN a ELSE b

RECURSIVE Pow(_, _)
Pow(b, n) == IF n <= 0 THEN 1 ELSE b * Pow(b, n - 1)

\* round(num/den, 2) in cents, den > 0: the nearest integers to num/den.
round2(num, den) ==
    LET q == num \div den
        r == num % den
    IN  IF 2 * r < den THEN {q}
        ELSE IF 2 * r > den THEN {q + 1}
        ELSE {q, q + 1}

\* A dict lookup d[k]: the value, or KeyError.
Lookup(d, k) ==
    IF k \in DOMAIN d THEN [raised |-> FALSE, val |-> d[k]]
    ELSE [raised |-> TRUE, val |-> 0]

\* ------------------------------------------------- load_stock_data
Row(sym, nm, cp, p, mc, g, v) ==
    [symbol |-> sym, name |-> nm, current_price |-> cp, pe |-> p,
     market_cap |-> mc, growth |-> g, volatility |-> v]

load_stock_data ==
    << Row("AAPL", "Apple Inc.", 17872, 294, 2760, 81, "Medium"),
       Row("MSFT", "Microsoft Corp.", 40256, 348, 3100, 143, "Low"),
       Row("GOOGL", "Alphabet Inc.", 16562, 257, 2150, 115, "Medium"),
       Row("AMZN", "Amazon.com Inc.", 17590, 472, 1820, 98, "High"),
       Row("TSLA", "Tesla Inc.", 23749, 685, 754, 212, "Very High"),
       Row("META", "Meta Platforms Inc.", 45012, 259, 1150, 137, "Medium"),
       Row("NVDA", "NVIDIA Corp.", 86026, 621, 2120, 302, "High"),
       Row("JPM", "JPMorgan Chase & Co.", 18243, 119, 525, 43, "Low"),
       Row("V", "Visa Inc.", 27684, 312, 570, 75, "Low"),
       Row("WMT", "Walmart Inc.", 6254, 273, 780, 39, "Very Low") >>

\* ----------------------------------------- calculate_feasibility_score
\* mutant: <= instead of < at the P/E boundaries
pe_score_le(pe) ==
    IF pe <= 300 THEN 20 ELSE IF pe <= 400 THEN 15 ELSE IF pe <= 500 THEN 10 ELSE 5

pe_score(pe) ==
    IF pe < 300 THEN 20 ELSE IF pe < 400 THEN 15 ELSE IF pe < 500 THEN 10 ELSE 5

volatility_scores ==
    [v \in Labels |->
        CASE v = "Very Low" -> 20
          [] v = "Low" -> 15
          [] v = "Medium" -> 10
          [] v = "High" -> 5
          [] v = "Very High" -> 0]

\* mutant: volatility_scores.get(label, 0) instead of volatility_scores[label]
calculate_feasibility_score_get(stock) ==
    LET growth_score == stock.growth * 3
        vs == Lookup(volatility_scores, stock.volatility)
    IN  [raised |-> FALSE,
         val |-> pe_score(stock.pe) * 10 + growth_score + vs.val * 10]

\* mutant: the sum clamped to 100
calculate_feasibility_score_clamped(stock) ==
    LET growth_score == stock.growth * 3
        vs == Lookup(volatility_scores, stock.volatility)
    IN  IF vs.raised THEN vs
        ELSE [raised |-> FALSE,
              val |-> Min(pe_score(stock.pe) * 10 + growth_score + vs.val * 10, 1000)]

\* score in tenths, or KeyError from volatility_scores[stock['volatility']]
calculate_feasibility_score(stock) ==
    LET growth_score == stock.growth * 3
        vs == Lookup(volatility_scores, stock.volatility)
    IN  IF vs.raised THEN vs
        ELSE [raised |-> FALSE,
              val |-> pe_score(stock.pe) * 10 + growth_score + vs.val * 10]

\* ----------------------------------------- calculate_investment_amount
\* percentage_to_invest = min((score/100) * max_percentage, max_percentage),
\* here in thousandths of a percent; the amount in cents is
\* total_funds * percentage / 100000, rounded.  The product is split as
\* total_funds = a * 100000 + b so that no intermediate exceeds 32 bits;
\* a * percentage is an integer, so only b * percentage / 100000 is rounded.
calculate_investment_amount(total_funds, sc, max_pct) ==
    LET percentage_to_invest == Min(sc * max_pct, 1000 * max_pct)
        a == total_funds \div 100000
        b == total_funds % 100000
    IN  {a * percentage_to_invest + r : r \in round2(b * percentage_to_invest, 100000)}

\* ----------------------------------------------- recommend_holding_period
\* mutant: >= instead of > in the growth thresholds
recommend_holding_period_ge(vol, growth) ==
    IF vol = "Very High" THEN "Short-term (1-3 months)"
    ELSE IF vol = "High"
        THEN (IF growth >= 150 THEN "Medium-term (3-6 months)" ELSE "Short-term (1-3 months)")
    ELSE IF vol = "Medium"
        THEN (IF growth >= 100 THEN "Medium-term (3-6 months)" ELSE "Long-term (6-12 months)")
    ELSE "Long-term (6-12+ months)"

recommend_holding_period(vol, growth) ==
    IF vol = "Very High" THEN "Short-term (1-3 months)"
    ELSE IF vol = "High"
        THEN (IF growth > 150 THEN "Medium-term (3-6 months)" ELSE "Short-term (1-3 months)")
    ELSE IF vol = "Medium"
        THEN (IF growth > 100 THEN "Medium-term (3-6 months)" ELSE "Long-term (6-12 months)")
    ELSE "Long-term (6-12+ months)"

\* ---------------------------------------------------- calculate_stop_loss
stop_loss_percentage ==
    [v \in Labels |->
        CASE v = "Very Low" -> 5
          [] v = "Low" -> 7
          [] v = "Medium" -> 10
          [] v = "High" -> 15
          [] v = "Very High" -> 20]

\* the set of possible results (cents), or KeyError
calculate_stop_loss(current_price, vol) ==
    LET p == Lookup(stop_loss_percentage, vol)
    IN  IF p.raised THEN [raised |-> TRUE, val |-> {}]
        ELSE [raised |-> FALSE, val |-> round2(current_price * (100 - p.val), 100)]


\* ------------------------------------------------ main: ranking (line 130)
RECURSIVE SortOrders(_, _, _)
\* Every order of the rows S of res in which each row is followed only by
\* rows whose score is not better (lower when descending).
\* sort_values is called with the default kind ('quicksort'), which is not
\* stable: rows with equal score may come out in any relative order.
SortOrders(res, S, asc) ==
    IF S = {} THEN {<< >>}
    ELSE LET firsts == {i \in S : \A j \in S :
                           IF asc THEN res[i].score <= res[j].score
                                  ELSE res[i].score >= res[j].score}
         IN  UNION {{<<[index |-> i - 1, row |-> res[i]]>> \o t :
                        t \in SortOrders(res, S \ {i}, asc)} : i \in firsts}

\* mutant: ascending=True
sort_values_ascending(res) == SortOrders(res, 1..Len(res), TRUE)

\* pd.DataFrame(results).sort_values(by='score', ascending=False): the rows
\* keep their original index label (0-based position in results).
sort_values(res) == SortOrders(res, 1..Len(res), FALSE)

\* ------------------------------------------- generate_historical_data
vol_factors ==
    [v \in Labels |->
        CASE v = "Very Low" -> 4
          [] v = "Low" -> 7
          [] v = "Medium" -> 10
          [] v = "High" -> 14
          [] v = "Very High" -> 18]

\* mutant: a default factor for an unknown label
vol_factor_lookup_get(v) ==
    IF v \in DOMAIN vol_factors THEN Lookup(vol_factors, v)
    ELSE [raised |-> FALSE, val |-> 10]

vol_factor_lookup(v) == Lookup(vol_factors, v)

\* mutant: range(days, 0, -1)
loop_range_short(d) == [j \in 1..d |-> d - (j - 1)]

\* range(days, -1, -1) as the sequence days, days-1, ..., 0 (empty if days < 0)
loop_range(d) == [j \in 1..(d + 1) |-> d - (j - 1)]

\* mutant: np.random.random() * 2 * vol_factor (the -0.5 forgotten)
random_changes_uncentred(f) == 0..(2 * f - 1)

\* (np.random.random() - 0.5) * 2 * vol_factor with random() in [0, 1):
\* the values of [-vol_factor, vol_factor) on a grid of 0.1 percent.
random_changes(f) == (-f)..(f - 1)

\* price * (1 + change / 100), change in tenths of a percent
compound(p, change) == [num |-> p.num * (1000 + change), exp |-> p.exp + 1]

\* ------------------------------------------------------------- inputs
\* The arguments the functions are applied to.  main itself passes the built-in
\* table, funds from the number_input widget (1000.00 .. 1000000.00) and the
\* default max_percentage = 10, days = 30; the other values exercise the
\* functions over the rest of their domain (boundaries, negative and
\* unrecognized values).
PeValues == {-50, 299, 300, 399, 400, 499, 500}
GrowthValues == {-200, 100, 101, 150, 151, 302}
VolValues == Labels \cup {"Extreme"}
PriceValues == {-500, 1, 10, 17872}
FundsValues == {0, 100007, 1000000}
PctValues == {5, 10}
StartPrices == {1, 2}

SingleStocks ==
    {Row("TEST", "Test Corp.", cp, p, 100, g, v) :
        cp \in PriceValues, p \in PeValues, g \in GrowthValues, v \in VolValues}

\* rows for multi-row batches; T1, T2 and T4 have the same score (60.0)
RankStocks ==
    { Row("T1", "Tie One", 1000, 250, 10, 100, "Medium"),
      Row("T2", "Tie Two", 2000, 350, 20, 100, "Low"),
      Row("T3", "Top", 3000, 450, 30, 200, "High"),
      Row("T4", "Tie Four", 4000, 550, 40, 150, "Medium"),
      Row("T5", "Negative", -500, -50, 50, 50, "Low"),
      Row("T6", "Unlabelled", 6000, 200, 60, 120, "Extreme") }

Distinct(s) == \A i, j \in 1..Len(s) : i # j => s[i] # s[j]

Batches ==
    {load_stock_data}
    \cup {<<s>> : s \in SingleStocks}
    \cup UNION {{b \in [1..n -> RankStocks] : Distinct(b)} : n \in 2..MaxStocks}

NoPrice == [num |-> 0, exp |-> 0]

\* --------------------------------------------------------------- Init
MainIdle ==
    /\ stock_data = << >> /\ available_funds = 0 /\ max_percentage = 0
    /\ idx = 0

MainLocals ==
    /\ score = 0 /\ recommended_amount = 0 /\ hold_period = "" /\ stop_loss = 0
    /\ results = << >> /\ results_df = << >> /\ exc = ""

HistIdle ==
    /\ start_price = 0 /\ volatility = "" /\ days = 0

HistLocals ==
    /\ vol_factor = 0 /\ todo = << >> /\ price = NoPrice
    /\ walk = << >> /\ data = << >>

\* main entered with a batch and the funds; results = [] (line 112)
InitMain ==
    /\ pc = "score"
    /\ stock_data \in Batches
    /\ available_funds \in FundsValues
    /\ max_percentage \in PctValues
    /\ idx = 1
    /\ MainLocals /\ HistIdle /\ HistLocals

\* generate_historical_data entered with its arguments
InitHist ==
    /\ pc = "h_start"
    /\ start_price \in StartPrices
    /\ volatility \in VolValues
    /\ days \in -1..MaxDays
    /\ MainIdle /\ MainLocals /\ HistLocals

Init == InitMain \/ InitHist

mainVars == <<stock_data, available_funds, max_percentage>>
histArgs == <<start_price, volatility, days>>
histVars == <<start_price, volatility, days, vol_factor, todo, price, walk, data>>

\* ------------------------------------------------------------ actions
\* line 114: score = calculate_feasibility_score(stock)
CalcScore ==
    /\ pc = "score"
    /\ LET r == calculate_feasibility_score(stock_data[idx])
       IN  IF r.raised
           THEN /\ pc' = "raised" /\ exc' = "KeyError" /\ UNCHANGED score
           ELSE /\ pc' = "amount" /\ score' = r.val /\ UNCHANGED exc
    /\ UNCHANGED <<mainVars, idx, recommended_amount, hold_period, stop_loss,
                   results, results_df, histVars>>

\* line 124: calculate_investment_amount(available_funds, score)
CalcAmount ==
    /\ pc = "amount"
    /\ recommended_amount' \in
           calculate_investment_amount(available_funds, score, max_percentage)
    /\ pc' = "hold"
    /\ UNCHANGED <<mainVars, idx, score, hold_period, stop_loss, results,
                   results_df, exc, histVars>>

\* line 125: recommend_holding_period(stock['volatility'], stock['growth'])
CalcHold ==
    /\ pc = "hold"
    /\ hold_period' = recommend_holding_period(stock_data[idx].volatility,
                                                stock_data[idx].growth)
    /\ pc' = "stop"
    /\ UNCHANGED <<mainVars, idx, score, recommended_amount, stop_loss, results,
                   results_df, exc, histVars>>

\* line 126: calculate_stop_loss(stock['current_price'], stock['volatility'])
CalcStop ==
    /\ pc = "stop"
    /\ LET r == calculate_stop_loss(stock_data[idx].current_price,
                                    stock_data[idx].volatility)
       IN  IF r.raised
           THEN /\ pc' = "raised" /\ exc' = "KeyError" /\ UNCHANGED stop_loss
           ELSE /\ pc' = "append" /\ stop_loss' \in r.val /\ UNCHANGED exc
    /\ UNCHANGED <<mainVars, idx, score, recommended_amount, hold_period,
                   results, results_df, histVars>>

\* lines 115-127: results.append({...}); then the next row, or line 130
AppendResult ==
    /\ pc = "append"
    /\ results' = Append(results,
           stock_data[idx] @@ [score |-> score,
                               recommended_amount |-> recommended_amount,
                               hold_period |-> hold_period,
                               stop_loss |-> stop_loss])
    /\ idx' = idx + 1
    /\ pc' = IF idx = Len(stock_data) THEN "sort" ELSE "score"
    /\ recommended_amount' = 0 /\ hold_period' = "" /\ stop_loss' = 0
    /\ UNCHANGED <<mainVars, score, results_df, exc, histVars>>

\* line 130: results_df = pd.DataFrame(results).sort_values(by='score', ascending=False)
SortResults ==
    /\ pc = "sort"
    /\ results_df' \in sort_values(results)
    /\ pc' = "ranked"
    /\ UNCHANGED <<mainVars, idx, score, recommended_amount, hold_period,
                   stop_loss, results, exc, histVars>>

mainState == <<stock_data, available_funds, max_percentage, idx, score,
               recommended_amount, hold_period, stop_loss, results, results_df>>

\* lines 28-38: data = [], price = start_price, vol_factor = {...}[volatility]
HistStart ==
    /\ pc = "h_start"
    /\ LET r == vol_factor_lookup(volatility)
       IN  IF r.raised
           THEN /\ pc' = "h_raised" /\ exc' = "KeyError"
                /\ UNCHANGED <<vol_factor, todo>>
           ELSE /\ pc' = "h_loop" /\ vol_factor' = r.val
                /\ todo' = loop_range(days) /\ UNCHANGED exc
    /\ price' = [num |-> start_price, exp |-> 0]
    /\ UNCHANGED <<mainState, histArgs, walk, data>>

\* lines 40-50: one pass of the loop body
HistStep ==
    /\ pc = "h_loop"
    /\ Len(todo) > 0
    /\ \E change \in random_changes(vol_factor) :
         LET i == todo[1]
             p == compound(price, change)
         IN  /\ price' = p
             /\ walk' = Append(walk, p)
             /\ \E cents \in round2(p.num, Pow(1000, p.exp)) :
                    data' = Append(data, [date |-> 0 - i, price |-> cents])
    /\ todo' = Tail(todo)
    /\ UNCHANGED <<pc, mainState, exc, histArgs, vol_factor>>

\* line 52: return pd.DataFrame(data)
HistReturn ==
    /\ pc = "h_loop"
    /\ Len(todo) = 0
    /\ pc' = "h_returned"
    /\ UNCHANGED <<mainState, exc, histVars>>

Next ==
    \/ CalcScore
    \/ CalcAmount
    \/ CalcHold
    \/ CalcStop
    \/ AppendResult
    \/ SortResults
    \/ HistStart
    \/ HistStep
    \/ HistReturn

Spec == Init /\ [][Next]_vars


\* ============================================================== claims
Built == {results[k] : k \in 1..Len(results)}

InMain == pc \in {"score", "amount", "hold", "stop", "append", "sort", "ranked", "raised"}

ScoreReturned == pc \in {"amount", "hold", "stop", "append"}

\* C1: for valid inputs (recognized label, P/E >= 0, funds > 0,
\* max percentage > 0, growth of any sign) every recommended amount a satisfies
\* 0 <= a <= available_funds * max_percentage / 100.
C1_AllocationWithinBounds ==
    \A r \in Built :
        (r.volatility \in Labels /\ r.pe >= 0 /\ available_funds > 0 /\ max_percentage > 0)
        => /\ 0 <= r.recommended_amount
           /\ r.recommended_amount * 100 <= available_funds * max_percentage

\* C2: for every positive current price and recognized label the stop-loss
\* price is strictly below the current price and strictly above 0.
C2_StopLossBelowPrice ==
    \A r \in Built :
        (r.current_price > 0 /\ r.volatility \in Labels)
        => (0 < r.stop_loss /\ r.stop_loss < r.current_price)

ValidInput(stock) ==
    /\ stock.volatility \in Labels
    /\ stock.pe >= 0
    /\ stock.current_price >= 0
    /\ available_funds > 0

C5_HoldingPeriodTable ==
    \A r \in Built :
        /\ r.volatility = "Very High" => r.hold_period = "Short-term (1-3 months)"
        /\ (r.volatility = "High" /\ r.growth > 150)
              => r.hold_period = "Medium-term (3-6 months)"
        /\ (r.volatility = "High" /\ r.growth <= 150)
              => r.hold_period = "Short-term (1-3 months)"
        /\ (r.volatility = "Medium" /\ r.growth > 100)
              => r.hold_period = "Medium-term (3-6 months)"
        /\ (r.volatility = "Medium" /\ r.growth <= 100)
              => r.hold_period = "Long-term (6-12 months)"
        /\ r.volatility \in {"Low", "Very Low"}
              => r.hold_period = "Long-term (6-12+ months)"
        /\ r.hold_period \in {"Short-term (1-3 months)", "Medium-term (3-6 months)",
                              "Long-term (6-12 months)", "Long-term (6-12+ months)"}

C5_Witness ==
    \E r \in Built :
        /\ r.volatility = "High" /\ r.growth = 150
        /\ r.hold_period = "Short-term (1-3 months)"

\* the P/E term of a record's score, in tenths
PeTerm(r) ==
    r.score - 3 * r.growth
        - 10 * (CASE r.volatility = "Very Low" -> 20
                  [] r.volatility = "Low" -> 15
                  [] r.volatility = "Medium" -> 10
                  [] r.volatility = "High" -> 5
                  [] r.volatility = "Very High" -> 0)

\* C6: the P/E sub-score is 20 below 30, 15 on [30, 40), 10 on [40, 50), 5 from
\* 50 up, and is non-increasing in P/E.
C6_PeScoreSteps ==
    /\ \A r \in Built :
          /\ r.pe < 300 => PeTerm(r) = 200
          /\ (300 <= r.pe /\ r.pe < 400) => PeTerm(r) = 150
          /\ (400 <= r.pe /\ r.pe < 500) => PeTerm(r) = 100
          /\ r.pe >= 500 => PeTerm(r) = 50
    /\ \A r1, r2 \in Built : r1.pe <= r2.pe => PeTerm(r1) >= PeTerm(r2)

C6_Witness ==
    \E r \in Built : r.pe = 300 /\ PeTerm(r) = 150

\* C7: the score is peScore + 3 * growth + volatilityScore with the strictly
\* decreasing lookup 20, 15, 10, 5, 0, and is not clamped to [0, 100].
C7_ScoreIsUnclampedSum ==
    \A r \in Built :
          r.score = 3 * r.growth
                    + 10 * (IF r.pe < 300 THEN 20 ELSE IF r.pe < 400 THEN 15
                            ELSE IF r.pe < 500 THEN 10 ELSE 5)
                    + 10 * (CASE r.volatility = "Very Low" -> 20
                              [] r.volatility = "Low" -> 15
                              [] r.volatility = "Medium" -> 10
                              [] r.volatility = "High" -> 5
                              [] r.volatility = "Very High" -> 0)

C7_Witness ==
    \E r \in Built :
        /\ r.pe = 621 /\ r.growth = 302 /\ r.volatility = "High"
        /\ r.score = 1006

\* C8: for a recognized label and days >= 0 the returned sequence has days+1
\* points, the point at 0-based position i dated (days - i) days before now
\* (strictly increasing, the last dated today), and the running price is
\* compounded once per emitted point starting from start_price.
C8_HistoryShape ==
    (pc = "h_returned" /\ days >= 0) =>
        /\ Len(data) = days + 1
        /\ \A j \in 1..Len(data) : data[j].date = 0 - (days - (j - 1))
        /\ \A j \in 1..(Len(data) - 1) : data[j].date < data[j + 1].date
        /\ data[Len(data)].date = 0
        /\ Len(walk) = Len(data)
        /\ \A j \in 1..Len(data) :
              /\ walk[j].exp = j
              /\ data[j].price \in round2(walk[j].num, Pow(1000, j))
              /\ \E c \in (0 - vol_factor)..(vol_factor - 1) :
                    walk[j].num =
                        (IF j = 1 THEN start_price ELSE walk[j - 1].num) * (1000 + c)

C8_Witness ==
    pc = "h_returned" /\ days >= 1 /\ Len(data) = days + 1

C10_WalkWithinEnvelope ==
    (pc \in {"h_loop", "h_returned"} /\ start_price > 0) =>
        /\ Len(walk) = Len(data)
        /\ price = (IF Len(walk) = 0 THEN [num |-> start_price, exp |-> 0]
                    ELSE walk[Len(walk)])
        /\ \A k \in 1..Len(walk) :
              LET n == walk[k].num
                  prev == IF k = 1 THEN start_price ELSE walk[k - 1].num
                  f == CASE volatility = "Very Low" -> 4
                         [] volatility = "Low" -> 7
                         [] volatility = "Medium" -> 10
                         [] volatility = "High" -> 14
                         [] volatility = "Very High" -> 18
              IN  /\ walk[k].exp = k
                  /\ n > 0
                  /\ start_price * Pow(1000 - f, k) <= n
                  /\ n <= start_price * Pow(1000 + f, k)
                  /\ n - 1000 * prev <= f * prev
                  /\ 1000 * prev - n <= f * prev

C10_Witness ==
    /\ pc = "h_returned"
    /\ Len(walk) >= 2
    /\ volatility = "Very High"
    /\ walk[1].num = start_price * 982
    /\ walk[2].num = walk[1].num * 1017

=============================================================================
